---- MODULE Spec2Model ----
(***************************************************************************)
(* A model of rslru (src/lib.rs): an LRU cache made of a HashMap from key   *)
(* to item pointer and an intrusive doubly linked list of heap items.      *)
(*                                                                         *)
(* The heap is modelled explicitly: every item lives at an address, an     *)
(* address is "live" or "free", and Box::new may hand out any address that *)
(* is not live (so the address of a released item may be reused, as a real *)
(* allocator does).  Pointers are addresses; NULL is Option::None.         *)
(*                                                                         *)
(* The code compares pointers for equality only (line 72), so a state is   *)
(* kept up to a renaming of the addresses (Store).  A released cell keeps  *)
(* no contents: no field of a released item is ever read (NoStaleRead), and *)
(* Item::new overwrites every field when the address is handed out again.  *)
(***************************************************************************)
EXTENDS Integers, Sequences, FiniteSets, TLC

\* ------------------------------------------------------------- bounds
MaxKey == 4
\* the calls on a cache draw their keys from 1..MaxCall, except in SpecWide
MaxCall == 3
MaxVal == 2
MaxCap == 2
\* the machine word (usize) has WordBits bits
WordBits == 3

Keys == 1..MaxKey
CallKeys == 1..MaxCall
Vals == 1..MaxVal
Caps == 0..MaxCap
\* the values of usize, and the largest of them (usize::MAX)
MaxWord == 2^WordBits - 1
Words == 0..MaxWord
\* One more address than keys: a put of an absent key always finds an
\* address no pointer refers to as well as (after an eviction) a released one.
Addr == 1..(MaxKey + 1)

\* Option::None, for pointers, keys and values alike.
NULL == 0

VARIABLES
    mem,        \* the heap: Addr -> Item (plus whether the cell is allocated)
    head,       \* List::head
    tail,       \* List::tail
    map,        \* Internal::map, as Keys -> Addr \cup {NULL}
    max_len,    \* Internal::max_len
    dropped,    \* the cache has been destroyed
    wr,         \* history: a field of a released item has been written
    rd,         \* history: a field of a released item has been read
    dfree,      \* history: an item has been released twice
    op,         \* history: the last call, [name, key, val]
    ret,        \* the last call's result (NULL for None, else the value)
    order,      \* history: the held keys, most recently accessed first
    expected,   \* history: Keys -> the value last put or written (NULL: none)
    heldAt,     \* history: Keys -> the keys held when the key was last accessed,
                \* while only absent keys outside that set were put since ({}: none)
    since,      \* history: Keys -> the absent keys put since the (held) key was
                \* last accessed
    ref,        \* history: the reference cache, <<key, value>> pairs by recency
    index_cap   \* the capacity Internal::new asked the HashMap for (PANIC: the
                \* call panicked)

vars == <<mem, head, tail, map, max_len, dropped, wr, rd, dfree, op, ret,
          order, expected, heldAt, since, ref, index_cap>>

\* ------------------------------------------------------------- the heap
\* struct Item { key, val, next, prev }, as Item::new builds it
Item(k, v) == [key |-> k, val |-> v, next |-> NULL, prev |-> NULL, st |-> "live"]

\* a cell that holds no item
Free == [key |-> NULL, val |-> NULL, next |-> NULL, prev |-> NULL, st |-> "free"]

\* A list state: the heap, List::head, List::tail and the two history flags.
ListState(m, h, t, w, r) == [mem |-> m, head |-> h, tail |-> t, wr |-> w, rd |-> r]

\* (*p.as_ptr()).next = n; a write into a released item only leaves its mark
SetNext(L, p, n) ==
    IF L.mem[p].st = "live"
    THEN [L EXCEPT !.mem[p].next = n]
    ELSE [L EXCEPT !.wr = TRUE]

\* (*p.as_ptr()).prev = n
SetPrev(L, p, n) ==
    IF L.mem[p].st = "live"
    THEN [L EXCEPT !.mem[p].prev = n]
    ELSE [L EXCEPT !.wr = TRUE]

\* (*p.as_ptr()).val = v
SetVal(L, p, v) ==
    IF L.mem[p].st = "live"
    THEN [L EXCEPT !.mem[p].val = v]
    ELSE [L EXCEPT !.wr = TRUE]

\* a read of a field of *p
Read(L, p) == [L EXCEPT !.rd = L.rd \/ L.mem[p].st # "live"]

\* Box::from_raw(item.as_ptr()), dropped at once
Release(m, a) == [m EXCEPT ![a] = Free]

\* ------------------------------------------------------------- List
\* List::push_front; a is the address Box::new returns.
push_front(L, a, k, v) ==
    LET L1 == [L EXCEPT !.mem[a] = Item(k, v)]
        L2 == [L1 EXCEPT !.mem[a].next = L1.head]
        L3 == IF L2.head = NULL
              THEN [L2 EXCEPT !.tail = a]
              ELSE SetPrev(L2, L2.head, a)
    IN  [L3 EXCEPT !.head = a]

\* move_to_front with the relinking left out: the item stays where it is
move_to_front_stay(L, item) == Read(L, item)

\* List::move_to_front
move_to_front(L, item) ==
    LET L0 == Read(L, item)
    IN  IF L0.mem[item].prev = NULL
        THEN L0
        ELSE LET L1 == IF L0.tail = item
                       THEN [L0 EXCEPT !.tail = L0.mem[item].prev]
                       ELSE L0
                 p  == L1.mem[item].prev
                 L2 == IF p # NULL THEN SetNext(L1, p, L1.mem[item].next) ELSE L1
                 n  == L2.mem[item].next
                 L3 == IF n # NULL THEN SetPrev(L2, n, L2.mem[item].prev) ELSE L2
                 L4 == [L3 EXCEPT !.mem[item].next = L3.head]
                 L5 == [L4 EXCEPT !.mem[item].prev = NULL]
                 L6 == IF L5.head # NULL THEN SetPrev(L5, L5.head, item) ELSE L5
             IN  [L6 EXCEPT !.head = item]

\* List::pop_back: the new list state and the popped item (NULL for None)
pop_back(L) ==
    IF L.tail = NULL
    THEN [list |-> L, item |-> NULL]
    ELSE LET t  == L.tail
             L1 == Read([L EXCEPT !.tail = NULL], t)
             p  == L1.mem[t].prev
             L2 == IF p # NULL
                   THEN [SetNext(L1, p, NULL) EXCEPT !.tail = p]
                   ELSE L1
         IN  [list |-> L2, item |-> t]

\* ------------------------------------------------------------- Internal
\* HashMap::len
count(mp) == Cardinality({k \in Keys : mp[k] # NULL})

\* put of a held key without the swap: the new value is stored and handed
\* back, the previous one is lost
put_hit_no_swap(L, mp, k, v) ==
    LET item == mp[k]
        L2   == SetVal(Read(L, item), item, v)
    IN  [list |-> move_to_front(L2, item), map |-> mp, ret |-> v,
         evicted |-> NULL, dfree |-> FALSE]

\* put of a held key that hands back the previous value but keeps it stored
put_hit_stale(L, mp, k, v) ==
    LET item == mp[k]
        L1   == Read(L, item)
    IN  [list |-> move_to_front(L1, item), map |-> mp, ret |-> L1.mem[item].val,
         evicted |-> NULL, dfree |-> FALSE]

\* Internal::put, the branch of a key found in the map
put_hit(L, mp, k, v) ==
    LET item == mp[k]
        L1   == Read(L, item)
        old  == L1.mem[item].val
        L2   == SetVal(L1, item, v)
    IN  [list |-> move_to_front(L2, item), map |-> mp, ret |-> old,
         evicted |-> NULL, dfree |-> FALSE]

\* Internal::put, lines 154-159: the eviction before an insertion
evict(L, mp, ml) ==
    IF count(mp) >= ml
    THEN LET r == pop_back(L)
         IN  IF r.item = NULL
             THEN [list |-> r.list, map |-> mp, evicted |-> NULL, dfree |-> FALSE]
             ELSE LET L1 == Read(r.list, r.item)
                      ek == L1.mem[r.item].key
                  IN  [list    |-> [L1 EXCEPT !.mem = Release(L1.mem, r.item)],
                       map     |-> [mp EXCEPT ![ek] = NULL],
                       evicted |-> ek,
                       dfree   |-> L1.mem[r.item].st # "live"]
    ELSE [list |-> L, map |-> mp, evicted |-> NULL, dfree |-> FALSE]

\* insert that pushes the item and leaves the index as it is
insert_unindexed(E, a, k, v) ==
    [list    |-> push_front(E.list, a, k, v),
     map     |-> E.map,
     ret     |-> NULL,
     evicted |-> E.evicted,
     dfree   |-> E.dfree]

\* Internal::put, lines 161-166: the insertion, at the address a
insert(E, a, k, v) ==
    [list |-> push_front(E.list, a, k, v), map |-> [E.map EXCEPT ![k] = a],
     ret |-> NULL, evicted |-> E.evicted, dfree |-> E.dfree]

\* get_item that finds the item and leaves it where it is in the list
get_item_still(L, mp, k) ==
    IF mp[k] # NULL
    THEN [list |-> L, item |-> mp[k]]
    ELSE [list |-> L, item |-> NULL]

\* Internal::get_item
get_item(L, mp, k) ==
    IF mp[k] # NULL
    THEN [list |-> move_to_front(L, mp[k]), item |-> mp[k]]
    ELSE [list |-> L, item |-> NULL]

\* Drop for Internal: pop every item; Box::from(ptr) boxes the pointer
\* itself (From<T> for Box<T>), so no item is released.
RECURSIVE drop_loop(_, _)
drop_loop(L, fuel) ==
    LET r == pop_back(L)
    IN  IF r.item = NULL \/ fuel = 0 THEN r.list ELSE drop_loop(r.list, fuel - 1)

\* Internal::put
put(L, mp, ml, a, k, v) ==
    IF mp[k] # NULL
    THEN put_hit(L, mp, k, v)
    ELSE insert(evict(L, mp, ml), a, k, v)

\* ------------------------------------------------------------- addresses
\* a pointer of the cache holds the address a
Referenced(L, mp, a) ==
    \/ L.head = a
    \/ L.tail = a
    \/ \E b \in Addr : L.mem[b].next = a \/ L.mem[b].prev = a
    \/ \E k \in Keys : mp[k] = a

\* Addresses in a fixed order: the live items by key, then the released
\* addresses a pointer still holds, then the rest.
Rank(L, mp, a) ==
    IF L.mem[a].st = "live" THEN L.mem[a].key
    ELSE IF Referenced(L, mp, a) THEN MaxKey + 1
    ELSE MaxKey + 2

\* the place of each address in that order (NULL stays NULL); rank is
\* [a \in Addr |-> Rank(L, mp, a)]
Renaming(rank) ==
    [a \in Addr \cup {NULL} |->
        IF a = NULL THEN NULL
        ELSE 1 + Cardinality({b \in Addr :
                     rank[b] < rank[a] \/ (rank[b] = rank[a] /\ b < a)})]

\* the list L with its addresses renamed by pi
Renamed(L, pi) ==
    [L EXCEPT !.mem  = [c \in Addr |->
                          LET a == CHOOSE a \in Addr : pi[a] = c
                          IN  [L.mem[a] EXCEPT !.next = pi[@], !.prev = pi[@]]],
              !.head = pi[L.head],
              !.tail = pi[L.tail]]

\* ------------------------------------------------------------- history
Without(s, k) == SelectSeq(s, LAMBDA x : x # k)

Held(mp) == {k \in Keys : mp[k] # NULL}

\* the recency order after an access to k that removed the key e (or NULL)
Touched(s, k, e) == <<k>> \o Without(Without(s, e), k)

\* ------------------------------------------------------------- LRU
\* the call did not return: it panicked
PANIC == -1

\* The capacity Internal::new computes, len + 1 in usize (line 135): when the
\* sum does not fit the word, a build with overflow checks panics and a build
\* without them wraps around.
new_capacity(len) ==
    IF len + 1 > MaxWord THEN {PANIC, (len + 1) % (2^WordBits)} ELSE {len + 1}

\* the state LRU::new(len) leaves; after a panic there is no cache to call
new(len) ==
    /\ mem = [a \in Addr |-> Free]
    /\ head = NULL
    /\ tail = NULL
    /\ map = [k \in Keys |-> NULL]
    /\ max_len = len
    /\ index_cap \in new_capacity(len)
    /\ dropped = (index_cap = PANIC)
    /\ wr = FALSE
    /\ rd = FALSE
    /\ dfree = FALSE
    /\ op = [name |-> "new", key |-> NULL, val |-> NULL]
    /\ ret = NULL
    /\ order = <<>>
    /\ expected = [k \in Keys |-> NULL]
    /\ heldAt = [k \in Keys |-> {}]
    /\ since = [k \in Keys |-> {}]
    /\ ref = <<>>

\* LRU::new(len) for each len of Caps
Init == \E len \in Caps : new(len)

Cur == ListState(mem, head, tail, wr, rd)

\* the list state L and the map mp become the current ones, the addresses
\* renamed into the fixed order
Store(L, mp) ==
    \E rank \in {[a \in Addr |-> Rank(L, mp, a)]} :
    \E pi \in {Renaming(rank)} :
    \E C \in {Renamed(L, pi)} :
        /\ mem' = C.mem
        /\ head' = C.head
        /\ tail' = C.tail
        /\ wr' = C.wr
        /\ rd' = C.rd
        /\ map' = [k \in Keys |-> pi[mp[k]]]

\* The addresses Box::new may return to put(k, _), E being the cache after
\* the eviction: a released address that a pointer still holds, or one that
\* no pointer holds (they are all alike, so the least of them stands for all);
\* NULL when k is found, as nothing is allocated then.
Fresh(k, E) ==
    IF map[k] # NULL
    THEN {NULL}
    ELSE LET free == {a \in Addr : E.list.mem[a].st # "live"}
             held == {a \in free : Referenced(E.list, E.map, a)}
             rest == free \ held
         IN  held \cup {a \in rest : \A b \in rest : a <= b}

\* LRU::put(key, val)
Put(k, v) ==
    /\ ~dropped
    /\ \E E \in {evict(Cur, map, max_len)} : \E a \in Fresh(k, E) :
        \E R \in {put(Cur, map, max_len, a, k, v)} :
            /\ Store(R.list, R.map)
            /\ ret' = R.ret
            /\ dfree' = (dfree \/ R.dfree)
            /\ order' = Touched(order, k, R.evicted)
            /\ expected' = [j \in Keys |->
                               IF j = k THEN v
                               ELSE IF j = R.evicted THEN NULL
                               ELSE expected[j]]
    /\ op' = [name |-> "put", key |-> k, val |-> v]
    /\ UNCHANGED <<max_len, dropped>>

\* the value behind the Option<NonNull<Item>> that get_item returned
val_of(G) ==
    IF G.item = NULL
    THEN [list |-> G.list, ret |-> NULL]
    ELSE [list |-> Read(G.list, G.item), ret |-> G.list.mem[G.item].val]

\* what a call of get or get_mut on k does to the history
Looked(k) ==
    /\ order' = (IF map[k] # NULL THEN Touched(order, k, NULL) ELSE order)
    /\ UNCHANGED <<max_len, dropped, dfree>>

\* LRU::get(&key)
Get(k) ==
    /\ ~dropped
    /\ \E R \in {val_of(get_item(Cur, map, k))} :
           /\ Store(R.list, map)
           /\ ret' = R.ret
    /\ op' = [name |-> "get", key |-> k, val |-> NULL]
    /\ expected' = expected
    /\ Looked(k)

\* LRU::get_mut(&key), and the caller's use of the &mut V it returns:
\* w is the value the caller stores through it (NULL: it stores nothing)
GetMut(k, w) ==
    /\ ~dropped
    /\ map[k] = NULL => w = NULL
    /\ \E G \in {get_item(Cur, map, k)} :
       \E R \in {val_of(G)} :
           /\ Store(IF w = NULL THEN R.list ELSE SetVal(R.list, G.item, w), map)
           /\ ret' = R.ret
    /\ op' = [name |-> "get_mut", key |-> k, val |-> w]
    /\ expected' = (IF w = NULL THEN expected ELSE [expected EXCEPT ![k] = w])
    /\ Looked(k)

\* drop(lru): Drop for Internal runs, then the fields of the cache are gone
\* (the HashMap releases its table, not the items); what is left is the heap
Drop ==
    /\ ~dropped
    /\ dropped' = TRUE
    /\ LET L == drop_loop(Cur, Cardinality(Addr))
       IN  Store([L EXCEPT !.head = NULL, !.tail = NULL], [k \in Keys |-> NULL])
    /\ op' = [name |-> "drop", key |-> NULL, val |-> NULL]
    /\ ret' = NULL
    /\ order' = <<>>
    /\ expected' = [k \in Keys |-> NULL]
    /\ UNCHANGED <<max_len, dfree>>

\* one call on the cache, on a key of CallKeys; heldAt, since and ref are not kept
Next ==
    \/ \E k \in CallKeys, v \in Vals :
          Put(k, v) /\ UNCHANGED <<heldAt, since, ref, index_cap>>
    \/ \E k \in CallKeys :
          Get(k) /\ UNCHANGED <<heldAt, since, ref, index_cap>>
    \/ \E k \in CallKeys, w \in Vals \cup {NULL} :
          GetMut(k, w) /\ UNCHANGED <<heldAt, since, ref, index_cap>>
    \/ Drop /\ UNCHANGED <<heldAt, since, ref, index_cap>>

Spec == Init /\ [][Next]_vars

\* heldAt after the step: the key called on starts afresh with the keys now
\* held; another key j stays watched only across a put of an absent key
\* outside heldAt[j]; a miss of get or get_mut and drop change nothing
Watched ==
    IF op'.name = "put" \/ (op'.name \in {"get", "get_mut"} /\ map[op'.key] # NULL)
    THEN [j \in Keys |->
            IF j = op'.key THEN Held(map')
            ELSE IF op'.name = "put" /\ map[op'.key] = NULL /\ op'.key \notin heldAt[j]
                 THEN heldAt[j]
            ELSE {}]
    ELSE heldAt

NextRecency ==
    \/ \E k \in CallKeys, v \in Vals :
          Put(k, v) /\ heldAt' = Watched /\ UNCHANGED <<since, ref, index_cap>>
    \/ \E k \in CallKeys :
          Get(k) /\ heldAt' = Watched /\ UNCHANGED <<since, ref, index_cap>>
    \/ \E k \in CallKeys, w \in Vals \cup {NULL} :
          GetMut(k, w) /\ heldAt' = Watched /\ UNCHANGED <<since, ref, index_cap>>
    \/ Drop /\ heldAt' = Watched /\ UNCHANGED <<since, ref, index_cap>>

\* the same calls, with the history of accesses kept in heldAt
SpecRecency == Init /\ [][NextRecency]_vars

\* since after the step: the key called on starts afresh; another key that
\* is still held gains the key of a put that found its key absent; a key
\* that is not held has nothing
Aged ==
    [j \in Keys |->
        IF j = op'.key \/ map'[j] = NULL THEN {}
        ELSE IF op'.name = "put" /\ map[op'.key] = NULL
             THEN since[j] \cup {op'.key}
        ELSE since[j]]

NextAge ==
    \/ \E k \in CallKeys, v \in Vals :
          Put(k, v) /\ since' = Aged /\ UNCHANGED <<heldAt, ref, index_cap>>
    \/ \E k \in CallKeys :
          Get(k) /\ since' = Aged /\ UNCHANGED <<heldAt, ref, index_cap>>
    \/ \E k \in CallKeys, w \in Vals \cup {NULL} :
          GetMut(k, w) /\ since' = Aged /\ UNCHANGED <<heldAt, ref, index_cap>>
    \/ Drop /\ since' = Aged /\ UNCHANGED <<heldAt, ref, index_cap>>

\* the same calls, with the puts of absent keys since each access kept in since
SpecAge == Init /\ [][NextAge]_vars

\* LRU::new(len) for each len of the machine word
InitNew == \E len \in Words : new(len)

\* a cache of any bound, and the calls on it
SpecNew == InitNew /\ [][Next]_vars

\* LRU::new(0)
InitWide == new(0)

\* one call on the cache, on any key
NextWide ==
    \/ \E k \in Keys, v \in Vals :
          Put(k, v) /\ UNCHANGED <<heldAt, since, ref, index_cap>>
    \/ \E k \in Keys :
          Get(k) /\ UNCHANGED <<heldAt, since, ref, index_cap>>
    \/ \E k \in Keys, w \in Vals \cup {NULL} :
          GetMut(k, w) /\ UNCHANGED <<heldAt, since, ref, index_cap>>
    \/ Drop /\ UNCHANGED <<heldAt, since, ref, index_cap>>

\* a cache of max_len 0 and the calls on it, with every key of Keys
SpecWide == InitWide /\ [][NextWide]_vars

\* ------------------------------------------------------------- reference
\* The reference cache of C18: a sequence of at most max_len <<key, value>>
\* pairs, the most recently used first.

\* the value the sequence s holds for k (NULL: none)
RefVal(s, k) ==
    IF \E i \in DOMAIN s : s[i][1] = k
    THEN s[CHOOSE i \in DOMAIN s : s[i][1] = k][2]
    ELSE NULL

\* s without the pair of k
RefWithout(s, k) == SelectSeq(s, LAMBDA x : x[1] # k)

\* put(k, v): a hit moves the pair to the front with its new value; a miss
\* drops the last pair at full length and inserts the new pair at the front
RefPut(s, ml, k, v) ==
    IF RefVal(s, k) # NULL
    THEN <<<<k, v>>>> \o RefWithout(s, k)
    ELSE <<<<k, v>>>> \o (IF Len(s) >= ml THEN SubSeq(s, 1, Len(s) - 1) ELSE s)

\* get(k), or get_mut(k) and the store of w through its result (NULL: none)
RefGet(s, k, w) ==
    IF RefVal(s, k) # NULL
    THEN <<<<k, IF w # NULL THEN w ELSE RefVal(s, k)>>>> \o RefWithout(s, k)
    ELSE s

\* ref after the step
Referred ==
    IF op'.name = "put" THEN RefPut(ref, max_len, op'.key, op'.val)
    ELSE IF op'.name \in {"get", "get_mut"} THEN RefGet(ref, op'.key, op'.val)
    ELSE <<>>

\* LRU::new(len) for each len of Caps from 2 on
InitRef == \E len \in Caps : len >= 2 /\ new(len)

NextRef ==
    \/ \E k \in CallKeys, v \in Vals :
          Put(k, v) /\ ref' = Referred /\ UNCHANGED <<heldAt, since, index_cap>>
    \/ \E k \in CallKeys :
          Get(k) /\ ref' = Referred /\ UNCHANGED <<heldAt, since, index_cap>>
    \/ \E k \in CallKeys, w \in Vals \cup {NULL} :
          GetMut(k, w) /\ ref' = Referred /\ UNCHANGED <<heldAt, since, index_cap>>
    \/ Drop /\ ref' = Referred /\ UNCHANGED <<heldAt, since, index_cap>>

\* the calls on a cache of max_len >= 2, run side by side with the reference
SpecRef == InitRef /\ [][NextRef]_vars

\* ------------------------------------------------------------- List alone
\* The list used by itself, as tests::it_works does (lines 234-253): the
\* caller keeps the pointer of each item it pushed in map, under the item's
\* key, and releases an item when pop_back hands it back.

\* List::new()
InitList == new(0)

\* list.push_front(Item::new(k, v)), k not in the list
ListPush(k, v) ==
    /\ map[k] = NULL
    /\ \E a \in Fresh(k, [list |-> Cur, map |-> map]) :
       \E R \in {push_front(Cur, a, k, v)} :
           Store(R, [map EXCEPT ![k] = a])
    /\ op' = [name |-> "push_front", key |-> k, val |-> v]
    /\ ret' = NULL
    /\ order' = <<k>> \o order
    /\ UNCHANGED <<max_len, dropped, dfree, expected, heldAt, since, ref, index_cap>>

\* list.move_to_front(item), item the pointer kept for k
ListMove(k) ==
    /\ map[k] # NULL
    /\ \E R \in {move_to_front(Cur, map[k])} : Store(R, map)
    /\ op' = [name |-> "move_to_front", key |-> k, val |-> NULL]
    /\ ret' = NULL
    /\ order' = <<k>> \o Without(order, k)
    /\ UNCHANGED <<max_len, dropped, dfree, expected, heldAt, since, ref, index_cap>>

\* list.pop_back(); the result is the key of the item returned (NULL: None),
\* and the caller releases the item
ListPop ==
    /\ \E r \in {pop_back(Cur)} :
          IF r.item = NULL
          THEN /\ Store(r.list, map)
               /\ ret' = NULL
               /\ order' = order
               /\ dfree' = dfree
          ELSE \E L1 \in {Read(r.list, r.item)} :
               \E ek \in {L1.mem[r.item].key} :
                   /\ Store([L1 EXCEPT !.mem = Release(L1.mem, r.item)],
                            [j \in Keys |-> IF map[j] = r.item THEN NULL ELSE map[j]])
                   /\ ret' = ek
                   /\ order' = Without(order, ek)
                   /\ dfree' = (dfree \/ L1.mem[r.item].st # "live")
    /\ op' = [name |-> "pop_back", key |-> NULL, val |-> NULL]
    /\ UNCHANGED <<max_len, dropped, expected, heldAt, since, ref, index_cap>>

NextList ==
    \/ \E k \in Keys, v \in Vals : ListPush(k, v)
    \/ \E k \in Keys : ListMove(k)
    \/ ListPop

\* every sequence of calls on a list
SpecList == InitList /\ [][NextList]_vars

\* ------------------------------------------------------------- observers
\* LRU::count
Count == count(map)

\* the entries reached by following next from p, at most n of them
RECURSIVE Walk(_, _, _)
Walk(m, p, n) ==
    IF p = NULL \/ n = 0 THEN <<>> ELSE <<p>> \o Walk(m, m[p].next, n - 1)

\* the chain from the head; longer than any set of addresses when it cycles
Chain == Walk(mem, head, Cardinality(Addr) + 1)

ChainKeys == {mem[Chain[i]].key : i \in DOMAIN Chain}

\* what get(k) finds in the map mp and the heap m
Lookup(mp, m, k) == IF mp[k] = NULL THEN NULL ELSE m[mp[k]].val

\* the step is a call put(k, _) with k absent
PutMiss == op'.name = "put" /\ map[op'.key] = NULL

\* the step is a call put(k, _) with k held
PutHit == op'.name = "put" /\ map[op'.key] # NULL

\* No field of a released item is read: a released cell needs no contents.
NoStaleRead == ~rd

\* ------------------------------------------------------------- claims

\* the keys of the items that are allocated
LiveKeys(m) == {m[a].key : a \in {b \in Addr : m[b].st = "live"}}

\* C1: for max_len >= 1, count() <= max_len after every call.
CapacityBound == (~dropped /\ max_len >= 1) => Count <= max_len

\* C2: a put of an absent key at count() >= max_len (with a key held) removes
\* exactly the least recently accessed held key, keeps every other held key
\* with its value, and makes the new key retrievable with its value.
EvictionOrder ==
    [][(PutMiss /\ count(map) >= max_len /\ count(map) >= 1) =>
          LET lru == order[Len(order)]
          IN  /\ Held(map') = (Held(map) \ {lru}) \cup {op'.key}
              /\ \A j \in Held(map) \ {lru} :
                     Lookup(map', mem', j) = Lookup(map, mem, j)
              /\ Lookup(map', mem', op'.key) = op'.val]_vars

\* C3: after a put or a hit of get or get_mut on K, K's item is the head, and
\* while only absent keys that were not held at that access are put, K is
\* not evicted before any key held at that access.
RecencyOrder ==
    ~dropped =>
        /\ (op.name \in {"put", "get", "get_mut"} /\ map[op.key] # NULL) =>
               head = map[op.key]
        /\ \A K \in Keys :
               (heldAt[K] # {} /\ map[K] = NULL) => heldAt[K] \cap Held(map) = {}

\* C3 witness: a put has evicted a key that was held when K was accessed,
\* and K is still held.
RecencyOutlives ==
    /\ op.name = "put"
    /\ \E K \in Keys :
          /\ map[K] # NULL
          /\ K # op.key
          /\ \E j \in heldAt[K] : map[j] = NULL

\* C4: with max_len = 0, after each put count() <= 1, the key just put is
\* retrievable and no other key is.
ZeroCapacity ==
    (max_len = 0 /\ op.name = "put") =>
        (Count <= 1 /\ map[op.key] # NULL /\ Held(map) = {op.key})

\* C5: the keys of the map are exactly the keys of the entries reached from
\* the head, each map value points to the live entry holding its key, and
\* the chain has count() entries.
IndexChainConsistent ==
    ~dropped =>
        /\ Len(Chain) = Count
        /\ ChainKeys = Held(map)
        /\ \A i \in DOMAIN Chain : mem[Chain[i]].st = "live"
        /\ \A k \in Held(map) : mem[map[k]].st = "live" /\ mem[map[k]].key = k

\* C6: no pointer of the cache holds the address of a released item, no
\* field of a released item is read or written, and no item is released twice.
NoUseAfterFree ==
    /\ ~wr
    /\ ~rd
    /\ ~dfree
    /\ \A a \in Addr : mem[a].st # "live" => ~Referenced(Cur, map, a)

\* C7: once the cache is destroyed, no item is left allocated.
NoLeak == dropped => \A a \in Addr : mem[a].st # "live"

\* C8: a put of a held key returns the previous value, stores the new one,
\* and leaves count(), the held keys and the allocated items as they were.
UpdateKeepsSize ==
    [][PutHit =>
          /\ ret' = Lookup(map, mem, op'.key)
          /\ Lookup(map', mem', op'.key) = op'.val
          /\ Held(map') = Held(map)
          /\ count(map') = count(map)
          /\ LiveKeys(mem') = LiveKeys(mem)]_vars

\* C8 witness: a put of a held key at count() >= max_len returned the
\* previous value, which differs from the one now stored.
UpdateAtCapacity ==
    /\ op.name = "put"
    /\ ret # NULL
    /\ ret # op.val
    /\ Count >= max_len
    /\ Count >= 2

\* C9: get and get_mut return the value last put or written for a held key
\* and None for a key that is not held (never put, or evicted).
LookupResult ==
    [][op'.name \in {"get", "get_mut"} =>
          /\ ret' = expected[op'.key]
          /\ (expected[op'.key] = NULL) <=> (map[op'.key] = NULL)]_vars

\* C9 witness: in a full cache, get_mut returned the value of a held key,
\* which the caller then replaced by another.
LookupAfterWrite ==
    /\ op.name = "get_mut"
    /\ ret # NULL
    /\ op.val # NULL
    /\ ret # op.val
    /\ Count = max_len
    /\ Count >= 2

\* C10: a put of an absent key at count() >= max_len and count() >= 1 takes
\* exactly the chain back out of the chain and the map and releases it, so
\* count() is the same after the put.
EvictionStep ==
    [][(PutMiss /\ count(map) >= max_len /\ count(map) >= 1) =>
          /\ tail # NULL
          /\ map'[mem[tail].key] = NULL
          /\ mem[tail].key \notin LiveKeys(mem')
          /\ count(map') = count(map)]_vars

\* C11: pop_back on a chain of one entry returns it and leaves head and tail
\* none; pop_back on an empty chain returns none; push_front on a chain with
\* no entries makes the new entry the head and the tail, its links none.
EmptyChain ==
    [][/\ (op'.name = "pop_back" /\ Len(order) = 1) =>
              (ret' = order[1] /\ head' = NULL /\ tail' = NULL)
       /\ (op'.name = "pop_back" /\ order = <<>>) => ret' = NULL
       /\ (op'.name = "push_front" /\ order = <<>>) =>
              /\ head' = map'[op'.key]
              /\ tail' = map'[op'.key]
              /\ mem'[head'].next = NULL
              /\ mem'[head'].prev = NULL]_vars

\* C12: a held key that has not been accessed since max(max_len, 1) distinct
\* absent keys were put is no longer held.
BoundedEviction ==
    ~dropped =>
        \A K \in Keys :
            map[K] # NULL => Cardinality(since[K]) < (IF max_len >= 1 THEN max_len ELSE 1)

\* the entries reached by following next from p, up to the first one that
\* is in seen or is met again
RECURSIVE Path(_, _, _)
Path(m, p, seen) ==
    IF p = NULL \/ p \in seen THEN <<>>
    ELSE <<p>> \o Path(m, m[p].next, seen \cup {p})

\* the keys of the chain's entries, from the head on
ChainOrder == [i \in DOMAIN Path(mem, head, {}) |-> mem[Path(mem, head, {})[i]].key]

\* the key of the item at p (NULL for None)
KeyAt(m, p) == IF p = NULL THEN NULL ELSE m[p].key

\* what C13 says of move_to_front(e), e the item of the key k
MovedToFront(k) ==
    /\ head' = map'[k]
    /\ ChainOrder' = <<k>> \o Without(ChainOrder, k)
    /\ tail = map[k] /\ head # map[k] =>
           KeyAt(mem', tail') = KeyAt(mem, mem[map[k]].prev)
    /\ head = map[k] => (ChainOrder' = ChainOrder /\ KeyAt(mem', tail') = KeyAt(mem, tail))

\* C13: move_to_front(e) makes e the head, keeps the other entries in their
\* order, makes e's predecessor the tail when e was the tail and changes
\* nothing when e is the head; pop_back returns the entry pushed or moved
\* least recently, and none once every entry has been popped.
MoveToFrontOrder ==
    [][/\ op'.name = "move_to_front" => MovedToFront(op'.key)
       /\ op'.name = "pop_back" =>
              ret' = (IF order = <<>> THEN NULL ELSE order[Len(order)])]_vars

\* the index, the stored values, count() and max_len are what they were
SameContents ==
    /\ Held(map') = Held(map)
    /\ \A j \in Keys : Lookup(map', mem', j) = Lookup(map, mem, j)
    /\ count(map') = count(map)
    /\ max_len' = max_len

\* C14: get and get_mut of an absent key change neither the index, the chain
\* order, a stored value nor count(); get of a held key k moves k to the
\* front of the chain, keeps the order of the other keys, and changes
\* neither the held keys, a stored value, count() nor max_len.
ReadFrame ==
    [][/\ (op'.name \in {"get", "get_mut"} /\ map[op'.key] = NULL) =>
              (SameContents /\ ChainOrder' = ChainOrder /\ ret' = NULL)
       /\ (op'.name = "get" /\ map[op'.key] # NULL) =>
              /\ SameContents
              /\ head' = map'[op'.key]
              /\ ChainOrder' = <<op'.key>> \o Without(ChainOrder, op'.key)]_vars

\* C15: put(k, v) with k absent returns None, makes a new item (k, v) the
\* head and indexes it under k, for every max_len; a get(k) that follows at
\* once returns v; when count() < max_len before the call, count() grows by
\* one and every held key stays held.
InsertNew ==
    [][/\ PutMiss =>
              /\ ret' = NULL
              /\ map'[op'.key] # NULL
              /\ head' = map'[op'.key]
              /\ mem'[head'].st = "live"
              /\ mem'[head'].key = op'.key
              /\ mem'[head'].val = op'.val
              /\ Lookup(map', mem', op'.key) = op'.val
              /\ count(map) < max_len =>
                     (count(map') = count(map) + 1 /\ Held(map) \subseteq Held(map'))
       /\ (op.name = "put" /\ ret = NULL /\ op'.name = "get" /\ op'.key = op.key) =>
              ret' = op.val]_vars

\* a put of an absent key was made below the bound
InsertBelowBound ==
    /\ op.name = "put"
    /\ ret = NULL
    /\ max_len = 2
    /\ Count = 1
    /\ head = map[op.key]
    /\ mem[head].val = op.val

\* The keys the item at a may hold: its key while it is allocated; once it
\* is released its memory is the allocator's, and a read of its key may give
\* any key.
KeysHeld(m, a) == IF m[a].st = "live" THEN {m[a].key} ELSE Keys

\* C16: no two entries reached from the head by next hold the same key.
KeyUnique ==
    \A i, j \in DOMAIN Path(mem, head, {}) :
        i # j => KeysHeld(mem, Path(mem, head, {})[i])
                     \cap KeysHeld(mem, Path(mem, head, {})[j]) = {}

\* the entries reached by following prev from p, up to the first one that
\* is in seen or is met again
RECURSIVE PathBack(_, _, _)
PathBack(m, p, seen) ==
    IF p = NULL \/ p \in seen THEN <<>>
    ELSE <<p>> \o PathBack(m, m[p].prev, seen \cup {p})

\* the sequence s read from its end
Reverse(s) == [i \in DOMAIN s |-> s[Len(s) + 1 - i]]

\* C17: head is none iff tail is none; head.prev and tail.next are none; the
\* next of a chain entry points back to it with prev; next from the head
\* reaches the tail through allocated entries only and without a cycle; prev
\* from the tail visits the same entries in reverse.
WellFormed ==
    /\ (head = NULL) <=> (tail = NULL)
    /\ head # NULL => mem[head].prev = NULL
    /\ tail # NULL => mem[tail].next = NULL
    /\ \A i \in DOMAIN Chain :
           /\ mem[Chain[i]].st = "live"
           /\ mem[Chain[i]].next # NULL => mem[mem[Chain[i]].next].prev = Chain[i]
    /\ Chain = Path(mem, head, {})
    /\ Chain # <<>> => Chain[Len(Chain)] = tail
    /\ PathBack(mem, tail, {}) = Reverse(Chain)

\* the <<key, value>> pairs of the chain's entries, from the head on
ChainPairs == [i \in DOMAIN Chain |-> <<mem[Chain[i]].key, mem[Chain[i]].val>>]

\* C18: for max_len >= 2, every put, get and get_mut returns what the
\* reference cache returns, count() is the length of the reference sequence,
\* and the chain read from head to tail is the reference sequence.
Refinement ==
    [][op'.name \in {"put", "get", "get_mut"} =>
          /\ ret' = RefVal(ref, op'.key)
          /\ Count' = Len(ref')
          /\ ChainPairs' = ref'
          /\ tail' = (IF Chain' = <<>> THEN NULL ELSE Chain'[Len(Chain')])]_vars

\* a put of an absent key was made on a cache that is full afterwards, the
\* pair behind the new one holding a value stored through get_mut or put
RefinedAtBound ==
    /\ op.name = "put"
    /\ ret = NULL
    /\ max_len = 2
    /\ Len(ref) = max_len
    /\ ref[1] = <<op.key, op.val>>
    /\ ref[2][2] # op.val
    /\ ChainPairs = ref

\* C19: new(max_len) returns, for every max_len of the machine word, an empty
\* cache (count() 0, head and tail none) with that bound, and the capacity
\* it asks the index for is max_len + 1, computed without overflow.
TotalConstruction ==
    op.name = "new" =>
        /\ index_cap # PANIC
        /\ index_cap = max_len + 1
        /\ ~dropped
        /\ Count = 0
        /\ head = NULL
        /\ tail = NULL
====
